---------------------------- MODULE Spec2Model ----------------------------
(***************************************************************************)
(* A model of pixi-devtools-cli: the script injected into the page         *)
(* (src/src/inject.ts), which installs window.__PIXI_CLI_DEBUG__.          *)
(*                                                                         *)
(* The page is single-threaded.  Every method of the namespace runs to     *)
(* completion; the only code that runs "inside" a method is the renderer,  *)
(* which capture() calls twice and which calls back the pipes' execute     *)
(* entry points (wrapped or not) and the graphics context's draw           *)
(* primitives.  The model therefore gives capture() a position (pc) and a  *)
(* call stack of pipe invocations, and makes every other method one step.  *)
(*                                                                         *)
(* Functions are modelled by their identity.  A pipe's execute entry point *)
(* is the sequence of captures whose wrappers are layered around the       *)
(* original: <<>> is the original function, <<1>> the wrapper installed    *)
(* by capture 1 around the original, <<1, 2>> the wrapper of capture 2     *)
(* around the wrapper of capture 1.  gl.drawElements and gl.drawArrays are *)
(* always replaced and restored together, so one value, glDraw, stands for *)
(* the pair: the sequence of counting wrappers layered around the native   *)
(* primitives, <<>> being the native primitives themselves.                *)
(***************************************************************************)
EXTENDS Integers, Sequences, FiniteSets, TLC

(***************************************************************************)
(* Bounds of the model.                                                    *)
(***************************************************************************)
MaxCaptures == 2      \* capture() calls in one behaviour
MaxCalls == 2         \* pipe execute invocations during one render
MaxDraws == 1         \* draw-primitive calls during one render
MaxNodes == 3         \* display nodes on the page
MaxInstr == 2         \* instructions in one instruction set
MaxDuration == 3      \* largest durationMs given to benchmark
MaxFrameTime == 2     \* longest frame, in clock ticks
MaxClassify == 2      \* classifications of one node in a row
MaxConnections == 3   \* connections one PixiDebugger opens
MaxPolls == 2         \* stats callbacks delivered while the watch is running
MaxDepth == 1         \* largest --depth given to the scene command
MaxValue == 2         \* the values a page's answer carries: 0..MaxValue
MaxTime == 5          \* the page's clock runs from 0 to MaxTime ticks
MaxFrames == 3        \* largest frameCount of the fps counter

(***************************************************************************)
(* The page: the global registration points findPixi reads.                *)
(* An object is modelled by which of the fields the code tests are truthy. *)
(* All registration points of one page name the same stage and the same    *)
(* renderer, so a reference is modelled by its presence.                   *)
(***************************************************************************)
NoApp == [present |-> FALSE, stage |-> FALSE, renderer |-> FALSE]
AppWith(s, r) == [present |-> TRUE, stage |-> s, renderer |-> r]
NoSource == [present |-> FALSE, app |-> NoApp, stage |-> FALSE,
             renderer |-> FALSE, version |-> ""]
SourceWith(a, s, r, v) == [present |-> TRUE, app |-> a, stage |-> s,
                           renderer |-> r, version |-> v]

\* window: __PIXI_DEVTOOLS__, __PIXI_APP__, __PIXI_STAGE__, __PIXI_RENDERER__,
\* PIXI.VERSION; instructionSet: stage.renderGroup.instructionSet is there;
\* gl: renderer.gl is there.
PageWith(d, a, s, r, v, is, gl) ==
    [devtools |-> d, pixiApp |-> a, pixiStage |-> s, pixiRenderer |-> r,
     pixiVersion |-> v, instructionSet |-> is, gl |-> gl]

\* The three candidates of findPixi, in its order.  __PIXI_APP__ is the
\* Application itself: it has stage and renderer and no app of its own.
Sources(w) ==
    << w.devtools,
       [present |-> w.pixiApp.present, app |-> NoApp, stage |-> w.pixiApp.stage,
        renderer |-> w.pixiApp.renderer, version |-> ""],
       [present |-> TRUE, app |-> NoApp, stage |-> w.pixiStage,
        renderer |-> w.pixiRenderer, version |-> ""] >>

\* source && (source.app || source.stage || source.renderer)
Exposes(s) == s.present /\ (s.app.present \/ s.stage \/ s.renderer)

NotFound == [found |-> FALSE, app |-> FALSE, stage |-> FALSE,
             renderer |-> FALSE, version |-> ""]

\* The handle findPixi builds from the winning source.
Handle(w, s) ==
    [found |-> TRUE,
     app |-> s.app.present \/ w.pixiApp.present,
     stage |-> s.stage \/ (s.app.present /\ s.app.stage) \/ w.pixiStage,
     renderer |-> s.renderer \/ (s.app.present /\ s.app.renderer) \/ w.pixiRenderer,
     version |-> IF s.version # "" THEN s.version ELSE w.pixiVersion]

\* (mutant) the candidates are tried last to first
FindPixiLastFirst(w) ==
    LET src == Sources(w)
        hits == {i \in 1..3 : Exposes(src[i])}
    IN IF hits = {} THEN NotFound
       ELSE Handle(w, src[CHOOSE i \in hits : \A j \in hits : i >= j])

\* for (const source of sources) if (source && (...)) return {...}; return null
FindPixi(w) ==
    LET src == Sources(w)
        hits == {i \in 1..3 : Exposes(src[i])}
    IN IF hits = {} THEN NotFound
       ELSE Handle(w, src[CHOOSE i \in hits : \A j \in hits : i <= j])


(***************************************************************************)
(* Display nodes.  A node is modelled by the properties the code reads:    *)
(* renderPipeId ("" when the property is missing), the three               *)
(* AnimatedSprite methods, whether it has the children and parent          *)
(* properties, its effects (-1: none, otherwise the length of the array)   *)
(* and whether it has a mask.                                              *)
(***************************************************************************)
NodeWith(rp, anim, fx, mask) ==
    [renderPipeId |-> rp, gotoAndPlay |-> anim, stop |-> anim, play |-> anim,
     children |-> TRUE, parent |-> TRUE, effects |-> fx, mask |-> mask]

\* The ordered checks of getPixiType; the first that matches wins.
Checks ==
    << <<"BitmapText", "BitmapText">>, <<"HTMLText", "htmlText">>,
       <<"Text", "text">>, <<"Mesh", "mesh">>, <<"Graphics", "graphics">>,
       <<"AnimatedSprite", "">>,
       <<"NineSliceSprite", "nineSliceSprite">>,
       <<"TilingSprite", "tilingSprite">>, <<"Sprite", "sprite">>,
       <<"ParticleContainer", "particle">>, <<"Container", "">> >>

Check(i, c) ==
    IF Checks[i][1] = "AnimatedSprite" THEN c.gotoAndPlay /\ c.stop /\ c.play
    ELSE IF Checks[i][1] = "Container" THEN c.children /\ c.parent
    ELSE c.renderPipeId # "" /\ c.renderPipeId = Checks[i][2]

\* (mutant) the last matching check wins
GetPixiTypeLastMatch(c) ==
    LET hits == {i \in 1..Len(Checks) : Check(i, c)}
    IN IF hits = {} THEN "Unknown"
       ELSE Checks[CHOOSE i \in hits : \A j \in hits : i >= j][1]

\* for (const [type, check] of checks) if (check(container)) return type
GetPixiType(c) ==
    LET hits == {i \in 1..Len(Checks) : Check(i, c)}
    IN IF hits = {} THEN "Unknown"
       ELSE Checks[CHOOSE i \in hits : \A j \in hits : i <= j][1]

\* type.toLowerCase(), on the tags getPixiType returns.
ToLowerCase(t) ==
    CASE t = "BitmapText" -> "bitmaptext"
      [] t = "HTMLText" -> "htmltext"
      [] t = "Text" -> "text"
      [] t = "Mesh" -> "mesh"
      [] t = "Graphics" -> "graphics"
      [] t = "AnimatedSprite" -> "animatedsprite"
      [] t = "NineSliceSprite" -> "nineslicesprite"
      [] t = "TilingSprite" -> "tilingsprite"
      [] t = "Sprite" -> "sprite"
      [] t = "ParticleContainer" -> "particlecontainer"
      [] t = "Container" -> "container"
      [] OTHER -> "unknown"

(***************************************************************************)
(* The display tree: nodes 1..MaxNodes, node 1 the stage.  children[n] is  *)
(* the node's child list; ignore and ignoreChildren are the flags          *)
(* __devtoolIgnore and __devtoolIgnoreChildren.  0 is a null reference.    *)
(***************************************************************************)
Nodes == 1..MaxNodes
Root == 1
NullRef == 0

\* let uidCounter = 0; const uidMap = new WeakMap(): what every evaluation
\* of the injected script starts from.
FreshUids == [counter |-> 0, map |-> [n \in {} |-> 0]]

\* uidCounter and uidMap of the injected script.
GetUid(n, u) ==
    IF n \in DOMAIN u.map THEN [uid |-> u.map[n], state |-> u]
    ELSE [uid |-> u.counter,
          state |-> [counter |-> u.counter + 1, map |-> u.map @@ (n :> u.counter)]]

\* 1000 ms, in ticks of the clock
FpsWindow == 2

\* let lastTime = performance.now(); let frameCount = 0; let fps = 0: what
\* every evaluation of the injected script starts from, at time t.
FreshFps(t) == [lastTime |-> t, frameCount |-> 0, fps |-> 0]

\* measureFps() at time t: the counter after the call and the value returned
MeasureFps(c, t) ==
    LET counted == [c EXCEPT !.frameCount = @ + 1]
        after == IF t - c.lastTime >= FpsWindow
                 THEN [lastTime |-> t, frameCount |-> 0, fps |-> counted.frameCount]
                 ELSE counted
    IN [state |-> after, fps |-> after.fps]

NullNode == [isNull |-> TRUE, id |-> 0, type |-> "", depth |-> 0, children |-> <<>>]

\* (mutant) the hidden-children flag is not read
DescendsIntoFlagged(s, n) == s.props[n].children

\* Whether the walkers go into the node's children:
\* container.children && !container.__devtoolIgnoreChildren
DescendsInto(s, n) == s.props[n].children /\ ~s.ignoreChildren[n]

\* if (!container || container.__devtoolIgnore) return null
SceneSkips(s, n) == n = NullRef \/ s.ignore[n]

RECURSIVE BuildSceneGraph(_, _, _, _)
RECURSIVE BuildChildren(_, _, _, _, _, _)
\* The snapshot of the subtree at n with the uid state after it.  Only the
\* fields of the snapshot node that identify it (id, type, depth, children)
\* are kept; the others copy properties of the display node.
BuildSceneGraph(s, n, depth, u) ==
    IF SceneSkips(s, n) THEN [node |-> NullNode, uid |-> u]
    ELSE LET g == GetUid(n, u)
             kids == IF DescendsInto(s, n)
                     THEN BuildChildren(s, s.children[n], 1, depth + 1, g.state, <<>>)
                     ELSE [nodes |-> <<>>, uid |-> g.state]
         IN [node |-> [isNull |-> FALSE, id |-> g.uid,
                       type |-> GetPixiType(s.props[n]), depth |-> depth,
                       children |-> kids.nodes],
             uid |-> kids.uid]

\* for (const child of container.children) { ...; if (childNode) push }
BuildChildren(s, cs, i, depth, u, acc) ==
    IF i > Len(cs) THEN [nodes |-> acc, uid |-> u]
    ELSE LET b == BuildSceneGraph(s, cs[i], depth, u)
         IN BuildChildren(s, cs, i + 1, depth, b.uid,
                          IF b.node.isNull THEN acc ELSE Append(acc, b.node))

\* stats[key] = (stats[key] || 0) + by
Bump(stats, key, by) ==
    IF key \in DOMAIN stats THEN [stats EXCEPT ![key] = @ + by]
    ELSE stats @@ (key :> by)

\* The stats object after the node's own counts (type, total, filters, masks).
CountNode(c, stats) ==
    LET s1 == Bump(stats, ToLowerCase(GetPixiType(c)), 1)
        s2 == Bump(s1, "total", 1)
        s3 == IF c.effects >= 0 THEN Bump(s2, "filters", c.effects) ELSE s2
    IN IF c.mask THEN Bump(s3, "masks", 1) ELSE s3

\* if (!container) return stats
StatsSkips(s, n) == n = NullRef

RECURSIVE CollectStats(_, _, _)
RECURSIVE CollectChildren(_, _, _, _)
RECURSIVE CollectChildrenSkipsLast(_, _, _, _)
CollectStats(s, n, stats) ==
    IF StatsSkips(s, n) THEN stats
    ELSE LET own == CountNode(s.props[n], stats)
         IN IF DescendsInto(s, n) THEN CollectChildren(s, s.children[n], 1, own)
            ELSE own

\* (mutant) the loop over the children leaves out the last child
CollectChildrenSkipsLast(s, cs, i, stats) ==
    IF i >= Len(cs) THEN stats
    ELSE CollectChildrenSkipsLast(s, cs, i + 1, CollectStats(s, cs[i], stats))

CollectChildren(s, cs, i, stats) ==
    IF i > Len(cs) THEN stats
    ELSE CollectChildren(s, cs, i + 1, CollectStats(s, cs[i], stats))

EmptyStats == [k \in {} |-> 0]

(***************************************************************************)
(* Instruction sets.  An instruction is modelled by its renderPipeId ("":  *)
(* none) and, for a render group, by its own nested instruction set.       *)
(***************************************************************************)
NoSet == [instructionSize |-> 0, instructions |-> <<>>]
Leaf(rp) == [renderPipeId |-> rp, hasSet |-> FALSE, set |-> NoSet]
Group(is) == [renderPipeId |-> "renderGroup", hasSet |-> TRUE, set |-> is]
SetOf(insts) == [instructionSize |-> Len(insts), instructions |-> insts]

\* index: instructions.length, read when the instruction's record is made
NextIndex(flat) == Len(flat)

RECURSIVE ProcessInstructionSet(_, _, _)
RECURSIVE ProcessFrom(_, _, _, _, _)
\* processInstructionSet(instSet, depth) with the closure's flat list
\* `instructions` passed in and returned: [result, instructions].
ProcessInstructionSet(is, depth, flat) == ProcessFrom(is, 1, depth, flat, <<>>)

\* One turn of the loop, at the i-th instruction (1-based here).
ProcessFrom(is, i, depth, flat, result) ==
    IF i > is.instructionSize THEN [result |-> result, instructions |-> flat]
    ELSE LET inst == is.instructions[i]
             index == NextIndex(flat)
             sub == IF inst.renderPipeId = "renderGroup" /\ inst.hasSet
                    THEN ProcessInstructionSet(inst.set, depth + 1, flat)
                    ELSE [result |-> <<>>, instructions |-> flat]
             instData == [index |-> index,
                          type |-> IF inst.renderPipeId = "" THEN "unknown"
                                   ELSE inst.renderPipeId,
                          depth |-> depth,
                          children |-> sub.result]
         IN ProcessFrom(is, i + 1, depth, Append(sub.instructions, instData),
                        Append(result, instData))

(***************************************************************************)
(* The state.                                                              *)
(***************************************************************************)
VARIABLES
    window,              \* the page's registration points
    scene,               \* the display tree under the stage
    instSet,             \* stage.renderGroup.instructionSet
    exec,                \* renderPipes: each pipe's execute entry point
    glDraw,              \* renderer.gl.drawElements / drawArrays
    renders,             \* calls of renderer.render by the last method called
    uid,                 \* uidCounter and uidMap
    pc,                  \* where capture() is: idle, baseline, profiled
    cap,                 \* captures begun: the number of the current one
    stack,               \* the pipe invocations in progress, outermost first
    originalExecuteFns,  \* capture's map of saved entry points
    pipeTimings,         \* capture's per-pipe record
    drawOrder,           \* capture's draw-order log
    totalDrawCalls,      \* capture's global draw-call counter
    nCalls,              \* pipe invocations begun in the current render
    nDraws,              \* draw calls issued in the current render
    pre,                 \* exec and glDraw when the last method began
    lastCall,            \* the last method called
    lastArg,             \* its argument (benchmark's durationMs; 0 for the others)
    lastResult,          \* what it returned, or that it threw
    reported,            \* every <<node, id>> a scene snapshot has shown
    client,              \* PixiDebugger.client: a connection, or NoClient
    injected,            \* PixiDebugger.injected
    conns,               \* connections opened so far
    evaluated,           \* evaluations of INJECT_SCRIPT, per connection
    running,             \* watchStats: the flag the stop handle clears
    pollPc,              \* watchStats: where the polling loop is
    delivered,           \* stats callbacks delivered while running
    lateCallbacks,       \* stats callbacks delivered after stop was called
    stoppedAt,           \* where the loop was when stop was called
    pollOutcome,         \* poll(): not called, running, returned or rejected
    lastCallback,        \* the last payload handed to the watch's callback
    fpsCounter,          \* lastTime, frameCount and fps of the injected script
    now                  \* performance.now(), in ticks of half a second

vars == << window, scene, instSet, exec, glDraw, renders, uid, pc, cap,
           stack, originalExecuteFns, pipeTimings, drawOrder, totalDrawCalls,
           nCalls, nDraws, pre, lastCall, lastArg, lastResult, reported,
           client, injected, conns, evaluated, running, pollPc, delivered,
           lateCallbacks, stoppedAt, pollOutcome, lastCallback, fpsCounter,
           now >>

pageVars == << window, scene, instSet >>
captureVars == << pc, cap, stack, originalExecuteFns, pipeTimings, drawOrder,
                  totalDrawCalls, nCalls, nDraws >>
rendererVars == << exec, glDraw >>
clientVars == << client, injected, conns, evaluated >>
fpsVars == << fpsCounter, now >>
watchVars == << running, pollPc, delivered, lateCallbacks, stoppedAt,
               pollOutcome, lastCallback >>

\* What a method hands back: a value, an {error} payload, null, or an exception.
Val(v) == [kind |-> "value", error |-> "", value |-> v]
Err(msg) == [kind |-> "error", error |-> msg, value |-> <<>>]
Null == [kind |-> "null", error |-> "", value |-> <<>>]
Threw == [kind |-> "throw", error |-> "", value |-> <<>>]
NoResult == [kind |-> "none", error |-> "", value |-> <<>>]
\* throw new Error(msg)
Raised(msg) == [kind |-> "throw", error |-> msg, value |-> <<>>]

Snapshot == [exec |-> exec, glDraw |-> glDraw]

\* Method `name`, called with arg, returns r after n calls of renderer.render.
ReturnsFor(name, arg, r, n) ==
    /\ lastCall' = name
    /\ lastArg' = arg
    /\ lastResult' = r
    /\ renders' = n
    /\ pre' = Snapshot

Returns(name, r, n) == ReturnsFor(name, 0, r, n)

(***************************************************************************)
(* The renderer's pipes.  renderPipes has three keys; the sprite pipe has  *)
(* no execute of its own.                                                  *)
(***************************************************************************)
Pipes == {"batch", "renderGroup", "sprite"}
ExecPipes == {"batch", "renderGroup"}

Original == <<>>
Native == <<>>

\* this.client = null
NoClient == 0


\* originalExecuteFns.set(key, pipe.execute), for every pipe that has one
SavedFns(e) == [k \in {p \in Pipes : e[p].has} |-> e[k].fn]

\* pipeTimings[key] = { time: 0, calls: 0, drawCalls: 0 }
FreshTimings(e) == [k \in {p \in Pipes : e[p].has} |-> [calls |-> 0, drawCalls |-> 0]]

\* (mutant) only the batch pipe is wrapped
WrapAllBatchOnly(e, c) ==
    [k \in Pipes |-> IF e[k].has /\ k = "batch"
                     THEN [has |-> TRUE, fn |-> Append(e[k].fn, c)]
                     ELSE e[k]]

\* pipe.execute = function(...args) {...}: capture c's wrapper around what was there
WrapAll(e, c) ==
    [k \in Pipes |-> IF e[k].has THEN [has |-> TRUE, fn |-> Append(e[k].fn, c)]
                     ELSE e[k]]

\* (mutant) the restoring loop stops after the first key
RestoreAllStopsEarly(e, saved) ==
    [k \in Pipes |->
        IF k \in DOMAIN saved /\ k = (CHOOSE p \in DOMAIN saved : TRUE)
        THEN [has |-> TRUE, fn |-> saved[k]]
        ELSE e[k]]

\* Restore original functions: pipe.execute = originalExecuteFns.get(key)
RestoreAll(e, saved) ==
    [k \in Pipes |-> IF k \in DOMAIN saved THEN [has |-> TRUE, fn |-> saved[k]]
                     ELSE e[k]]

\* The counting wrappers the layers of a pipe's entry point put around the
\* draw primitives on the way in (the outermost layer, the latest capture's,
\* wraps first), when the renderer has a gl context.  A counting wrapper is
\* named by the capture whose counters it feeds.
GlWrappers(layers) == [i \in 1..Len(layers) |-> layers[Len(layers) + 1 - i]]

WrapDraw(gl, g, layers) == IF gl THEN g \o GlWrappers(layers) ELSE g

\* gl.drawElements = origDraw; gl.drawArrays = origDrawArrays: each layer puts
\* back what it found, so a normal return leaves what the invocation found.
RestoreDraw(gl, g, frame) == IF gl THEN frame.origDraw ELSE g

\* (mutant) a draw call is counted once however many wrappers it runs through
CountingLayersOnce(g, c) == 1

\* The wrappers of capture c in the chain the draw primitive runs through:
\* each counts the call once (totalDrawCalls++).
CountingLayers(g, c) == Cardinality({i \in DOMAIN g : g[i] = c})

\* (mutant) no filtering of the timing records
FilterTimingsKeepsAll(pt) == pt

\* .filter(([_, v]) => v.calls > 0)
FilterTimings(pt) == [k \in {p \in DOMAIN pt : pt[p].calls > 0} |-> pt[k]]

\* The object capture() returns (the timings' milliseconds, totals, memory
\* and canvas are measurements of the page and are left out).
CaptureResult ==
    [drawCalls |-> totalDrawCalls,
     instructionCount |-> instSet.instructionSize,
     pipeTimings |-> FilterTimings(pipeTimings),
     instructions |-> ProcessInstructionSet(instSet, 0, <<>>).instructions,
     drawOrder |-> drawOrder]

NoFns == [k \in {} |-> Original]
NoTimings == [k \in {} |-> [calls |-> 0, drawCalls |-> 0]]

\* capture()'s locals, gone when it returns or throws
LocalsGone ==
    /\ stack' = <<>>
    /\ originalExecuteFns' = NoFns
    /\ pipeTimings' = NoTimings
    /\ drawOrder' = <<>>
    /\ totalDrawCalls' = 0
    /\ nCalls' = 0
    /\ nDraws' = 0

\* (mutant) the instruction-set check is dropped
HasInstructionSetUnchecked(w) == TRUE

\* stage.renderGroup?.instructionSet
HasInstructionSet(w) == w.instructionSet

(***************************************************************************)
(* capture(): the checks and the call of the baseline render.              *)
(***************************************************************************)
Capture ==
    /\ pc = "idle"
    /\ cap < MaxCaptures
    /\ LET pixi == FindPixi(window)
       IN IF ~pixi.renderer \/ ~pixi.stage
          THEN /\ Returns("capture", Err("No renderer or stage found"), 0)
               /\ UNCHANGED << pc, cap >>
          ELSE IF ~HasInstructionSet(window)
          THEN /\ Returns("capture", Err("Capture requires PixiJS v8 with render groups"), 0)
               /\ UNCHANGED << pc, cap >>
          ELSE /\ lastCall' = "capture"
               /\ lastArg' = 0
               /\ lastResult' = NoResult
               /\ pre' = Snapshot
               /\ pc' = "baseline"
               /\ cap' = cap + 1
               /\ renders' = 1
    /\ UNCHANGED << fpsVars, watchVars, clientVars, reported, pageVars, rendererVars, uid, stack, originalExecuteFns,
                    pipeTimings, drawOrder, totalDrawCalls, nCalls, nDraws >>

\* The renderer, or the pipe whose execute is running, calls pipe k's execute
\* entry point: every wrapper layered on it runs down to the original.
PipeEnter(k) ==
    /\ pc \in {"baseline", "profiled"}
    /\ exec[k].has
    /\ nCalls < MaxCalls
    /\ LET live == pc = "profiled" /\ k \in DOMAIN originalExecuteFns
       IN /\ stack' = Append(stack, [pipe |-> k, live |-> live, origDraw |-> glDraw,
                                     pipeDrawCalls |-> 0])
          /\ pipeTimings' = IF live
                            THEN [pipeTimings EXCEPT ![k].calls = @ + 1]
                            ELSE pipeTimings
    /\ glDraw' = WrapDraw(window.gl, glDraw, exec[k].fn)
    /\ nCalls' = nCalls + 1
    /\ UNCHANGED << fpsVars, watchVars, clientVars, reported, pageVars, exec, renders, uid, pc, cap, originalExecuteFns,
                    drawOrder, totalDrawCalls, nDraws, pre, lastCall, lastArg, lastResult >>

\* The original execute that is running issues gl.drawElements or gl.drawArrays.
DrawCall ==
    /\ pc \in {"baseline", "profiled"}
    /\ stack # <<>>
    /\ window.gl
    /\ nDraws < MaxDraws
    /\ totalDrawCalls' = totalDrawCalls + CountingLayers(glDraw, cap)
    /\ stack' = [i \in DOMAIN stack |->
                   IF stack[i].live
                   THEN [stack[i] EXCEPT !.pipeDrawCalls = @ + 1]
                   ELSE stack[i]]
    /\ nDraws' = nDraws + 1
    /\ UNCHANGED << fpsVars, watchVars, clientVars, reported, pageVars, rendererVars, renders, uid, pc, cap,
                    originalExecuteFns, pipeTimings, drawOrder, nCalls, pre,
                    lastCall, lastArg, lastResult >>

\* The innermost original execute returns, and its wrappers after it.
PipeReturn ==
    /\ pc \in {"baseline", "profiled"}
    /\ stack # <<>>
    /\ LET f == stack[Len(stack)]
       IN /\ glDraw' = RestoreDraw(window.gl, glDraw, f)
          /\ pipeTimings' = IF f.live
                            THEN [pipeTimings EXCEPT ![f.pipe].drawCalls =
                                                        @ + f.pipeDrawCalls]
                            ELSE pipeTimings
          /\ drawOrder' = IF f.live
                          THEN Append(drawOrder, [pipe |-> f.pipe,
                                                  drawCalls |-> f.pipeDrawCalls])
                          ELSE drawOrder
          /\ stack' = SubSeq(stack, 1, Len(stack) - 1)
    /\ UNCHANGED << fpsVars, watchVars, clientVars, reported, pageVars, exec, renders, uid, pc, cap, originalExecuteFns,
                    totalDrawCalls, nCalls, nDraws, pre, lastCall, lastArg, lastResult >>

\* The innermost original execute throws.  No wrapper, and nothing in
\* capture(), catches: the exception leaves every invocation in progress,
\* renderer.render and capture() itself; nothing is put back.
PipeThrow ==
    /\ pc \in {"baseline", "profiled"}
    /\ stack # <<>>
    /\ pc' = "idle"
    /\ lastResult' = Threw
    /\ LocalsGone
    /\ UNCHANGED << fpsVars, watchVars, clientVars, reported, pageVars, rendererVars, renders, uid, cap, pre, lastCall, lastArg >>

\* The baseline render returns: capture() wraps every pipe's execute and
\* calls the profiled render.
BaselineReturn ==
    /\ pc = "baseline"
    /\ stack = <<>>
    /\ originalExecuteFns' = SavedFns(exec)
    /\ pipeTimings' = FreshTimings(exec)
    /\ drawOrder' = <<>>
    /\ totalDrawCalls' = 0
    /\ exec' = WrapAll(exec, cap)
    /\ pc' = "profiled"
    /\ renders' = renders + 1
    /\ nCalls' = 0
    /\ nDraws' = 0
    /\ UNCHANGED << fpsVars, watchVars, clientVars, reported, pageVars, glDraw, uid, cap, stack, pre, lastCall, lastArg, lastResult >>

\* The profiled render returns: capture() restores the entry points, builds
\* its result and returns it.
ProfiledReturn ==
    /\ pc = "profiled"
    /\ stack = <<>>
    /\ exec' = RestoreAll(exec, originalExecuteFns)
    /\ lastResult' = Val(CaptureResult)
    /\ pc' = "idle"
    /\ LocalsGone
    /\ UNCHANGED << fpsVars, watchVars, clientVars, reported, pageVars, glDraw, renders, uid, cap, pre, lastCall, lastArg >>

(***************************************************************************)
(* The other methods of window.__PIXI_CLI_DEBUG__.  Each is one step.      *)
(***************************************************************************)
InfoResult(w) ==
    LET pixi == FindPixi(w)
    IN IF ~pixi.found THEN Err("PixiJS not found")
       ELSE Val([version |-> IF pixi.version = "" THEN "unknown" ELSE pixi.version,
                 hasApp |-> pixi.app, hasStage |-> pixi.stage,
                 hasRenderer |-> pixi.renderer])

\* [result, uid]: getSceneGraph assigns ids to the nodes it sees first.
SceneGraphResult(w, s, u) ==
    IF ~FindPixi(w).stage THEN [result |-> Err("No stage found"), uid |-> u]
    ELSE LET b == BuildSceneGraph(s, Root, 0, u)
         IN [result |-> IF b.node.isNull THEN Null ELSE Val(b.node), uid |-> b.uid]

StatsResult(w, s) ==
    IF ~FindPixi(w).stage THEN Err("No stage found")
    ELSE Val(CollectStats(s, Root, EmptyStats))

\* getRenderingInfo reads the renderer's settings: only the backend is kept.
RenderingResult(w) ==
    IF ~FindPixi(w).renderer THEN Err("No renderer found")
    ELSE Val([type |-> IF w.gl THEN "webgl2" ELSE "webgpu"])

\* getTextureInfo lists the renderer's managed textures: none on these pages.
TexturesResult(w) ==
    IF ~FindPixi(w).renderer THEN Err("No renderer found")
    ELSE Val(<<>>)

\* (mutant) getInstructions tests the renderer alone
InstructionsResultRendererOnly(w, is) ==
    IF ~FindPixi(w).renderer THEN Err("No renderer or stage found") ELSE Null

\* getRenderInstructions: null without an instruction set, else the top-level list
InstructionsResult(w, is) ==
    LET pixi == FindPixi(w)
    IN IF ~pixi.renderer \/ ~pixi.stage THEN Err("No renderer or stage found")
       ELSE IF ~HasInstructionSet(w) THEN Null
       ELSE Val([count |-> is.instructionSize,
                 instructions |->
                    [i \in 1..is.instructionSize |->
                       IF is.instructions[i].renderPipeId = "" THEN "unknown"
                       ELSE is.instructions[i].renderPipeId]])

RECURSIVE Subnodes(_)
Subnodes(nd) == {nd} \cup UNION {Subnodes(nd.children[i]) : i \in DOMAIN nd.children}

\* The display nodes a snapshot holds, by the ids getUid gave them.
SnapshotOf(r, u) ==
    IF r.kind # "value" THEN {}
    ELSE {n \in DOMAIN u.map : \E nd \in Subnodes(r.value) : nd.id = u.map[n]}

\* The <<node, id>> pairs a snapshot shows.
Shows(r, u) == {<<n, u.map[n]>> : n \in SnapshotOf(r, u)}

GetInfo ==
    /\ pc = "idle"
    /\ Returns("getInfo", InfoResult(window), 0)
    /\ UNCHANGED << fpsVars, watchVars, clientVars, reported, pageVars, rendererVars, uid, captureVars >>

GetSceneGraph ==
    /\ pc = "idle"
    /\ LET r == SceneGraphResult(window, scene, uid)
       IN /\ Returns("getSceneGraph", r.result, 0)
          /\ uid' = r.uid
          /\ reported' = reported \cup Shows(r.result, r.uid)
    /\ UNCHANGED << fpsVars, watchVars, clientVars, pageVars, rendererVars, captureVars >>

GetStats ==
    /\ pc = "idle"
    /\ Returns("getStats", StatsResult(window, scene), 0)
    /\ UNCHANGED << fpsVars, watchVars, clientVars, reported, pageVars, rendererVars, uid, captureVars >>

GetRendering ==
    /\ pc = "idle"
    /\ Returns("getRendering", RenderingResult(window), 0)
    /\ UNCHANGED << fpsVars, watchVars, clientVars, reported, pageVars, rendererVars, uid, captureVars >>

GetTextures ==
    /\ pc = "idle"
    /\ Returns("getTextures", TexturesResult(window), 0)
    /\ UNCHANGED << fpsVars, watchVars, clientVars, reported, pageVars, rendererVars, uid, captureVars >>

GetInstructions ==
    /\ pc = "idle"
    /\ Returns("getInstructions", InstructionsResult(window, instSet), 0)
    /\ UNCHANGED << fpsVars, watchVars, clientVars, reported, pageVars, rendererVars, uid, captureVars >>

GetAll ==
    /\ pc = "idle"
    /\ LET sg == SceneGraphResult(window, scene, uid)
       IN /\ Returns("getAll",
                     Val([info |-> InfoResult(window),
                          sceneGraph |-> sg.result,
                          stats |-> StatsResult(window, scene),
                          rendering |-> RenderingResult(window),
                          textures |-> TexturesResult(window),
                          instructions |-> InstructionsResult(window, instSet)]),
                     0)
          /\ uid' = sg.uid
          /\ reported' = reported \cup Shows(sg.result, sg.uid)
    /\ UNCHANGED << fpsVars, watchVars, clientVars, pageVars, rendererVars, captureVars >>

(***************************************************************************)
(* benchmark(durationMs).  The clock counts ticks and a render takes       *)
(* 1..MaxFrameTime of them; the loop renders while the time elapsed is     *)
(* less than durationMs.                                                   *)
(***************************************************************************)
RECURSIVE Sum(_)
Sum(f) == IF f = <<>> THEN 0 ELSE f[1] + Sum(Tail(f))

\* The frame-time lists the loop can record for a duration d.
FrameRuns(d) ==
    {f \in UNION {[1..n -> 1..MaxFrameTime] : n \in 0..MaxDuration} :
        /\ (d <= 0 => f = <<>>)
        /\ (d > 0 => /\ f # <<>>
                     /\ Sum(f) >= d
                     /\ Sum(SubSeq(f, 1, Len(f) - 1)) < d)}

\* (mutant) the frame times are not sorted
SortedFramesUnsorted(f) == f

\* [...frames].sort((a, b) => a - b): ascending, by insertion
RECURSIVE SortedFrames(_)
SortedFrames(f) ==
    IF f = <<>> THEN <<>>
    ELSE LET rest == SortedFrames(Tail(f))
             below == SelectSeq(rest, LAMBDA x : x <= Head(f))
             above == SelectSeq(rest, LAMBDA x : x > Head(f))
         IN below \o <<Head(f)>> \o above

\* Number((num / den).toFixed(3)), in thousandths of a tick
ToFixed3(num, den) == (2000 * num + den) \div (2 * den)

\* sortedFrames[Math.floor(frames.length * 0.XX)], pct the percentage XX
\* (the sequence is indexed from 1)
Percentile(sorted, pct) == sorted[((Len(sorted) * pct) \div 100) + 1]

\* What benchmark computes from the frames: sortedFrames[0] is undefined for
\* an empty list, and undefined.toFixed(3) throws a TypeError.  The frame
\* times of the result are in thousandths of a tick; frames, the list the
\* loop recorded, is kept beside the result's own fields.
BenchmarkResult(frames) ==
    IF frames = <<>> THEN Threw
    ELSE LET sortedFrames == SortedFrames(frames)
         IN Val([frameCount |-> Len(frames), frames |-> frames,
                 frameTime |->
                    [avg |-> ToFixed3(Sum(frames), Len(frames)),
                     min |-> ToFixed3(sortedFrames[1], 1),
                     max |-> ToFixed3(sortedFrames[Len(sortedFrames)], 1),
                     p50 |-> ToFixed3(Percentile(sortedFrames, 50), 1),
                     p95 |-> ToFixed3(Percentile(sortedFrames, 95), 1),
                     p99 |-> ToFixed3(Percentile(sortedFrames, 99), 1)]])

Benchmark(d) ==
    /\ pc = "idle"
    /\ LET pixi == FindPixi(window)
       IN IF ~pixi.renderer \/ ~pixi.stage
          THEN ReturnsFor("benchmark", d, Err("No renderer or stage found"), 0)
          ELSE \E f \in FrameRuns(d) :
                  ReturnsFor("benchmark", d, BenchmarkResult(f), Len(f))
    /\ UNCHANGED << fpsVars, watchVars, clientVars, reported, pageVars, rendererVars, uid, captureVars >>

(***************************************************************************)
(* The pages, display trees and instruction sets the behaviours start      *)
(* from.                                                                   *)
(***************************************************************************)
\* Registration layouts: nothing; an empty __PIXI_DEVTOOLS__; devtools with a
\* stage only, a renderer only, an app (with its version); devtools with a
\* stage beside a registered __PIXI_APP__; __PIXI_APP__ alone, whole and
\* before its renderer is there; __PIXI_STAGE__ and __PIXI_RENDERER__.
Layouts ==
    { <<NoSource, NoApp, FALSE, FALSE>>,
      <<SourceWith(NoApp, FALSE, FALSE, ""), NoApp, FALSE, FALSE>>,
      <<SourceWith(NoApp, TRUE, FALSE, ""), NoApp, FALSE, FALSE>>,
      <<SourceWith(NoApp, FALSE, TRUE, ""), NoApp, FALSE, FALSE>>,
      <<SourceWith(AppWith(TRUE, TRUE), FALSE, FALSE, "8.0.0"), NoApp, FALSE, FALSE>>,
      <<SourceWith(NoApp, TRUE, FALSE, ""), AppWith(TRUE, TRUE), FALSE, FALSE>>,
      <<NoSource, AppWith(TRUE, TRUE), FALSE, FALSE>>,
      <<NoSource, AppWith(TRUE, FALSE), FALSE, FALSE>>,
      <<NoSource, NoApp, TRUE, FALSE>>,
      <<NoSource, NoApp, FALSE, TRUE>>,
      <<NoSource, NoApp, TRUE, TRUE>> }

Pages ==
    {PageWith(l[1], l[2], l[3], l[4], "", is, gl) :
        l \in Layouts, is \in BOOLEAN, gl \in BOOLEAN}

\* A page with everything registered: __PIXI_APP__, a v8 stage, a gl context.
FullPage == PageWith(NoSource, AppWith(TRUE, TRUE), FALSE, FALSE, "", TRUE, TRUE)

\* The children of n under the parent relation, in the order of the child list.
RECURSIVE ChildSeq(_, _, _)
ChildSeq(parent, n, i) ==
    IF i > MaxNodes THEN <<>>
    ELSE (IF parent[i] = n THEN <<i>> ELSE <<>>) \o ChildSeq(parent, n, i + 1)

SceneWith(parent, props, ig, igc) ==
    [parent |-> parent,
     children |-> [n \in Nodes |-> ChildSeq(parent, n, 1)],
     props |-> props, ignore |-> ig, ignoreChildren |-> igc]

\* Every node but the stage hangs under an earlier node or is not in the tree.
Parents ==
    {p \in [Nodes -> 0..MaxNodes] : p[Root] = NullRef /\ \A n \in Nodes \ {Root} : p[n] < n}

\* A plain container; a sprite with an empty effects array and a mask.
NodeKinds == {NodeWith("", FALSE, -1, FALSE), NodeWith("sprite", FALSE, 0, TRUE)}

Scenes ==
    {SceneWith(p, k, ig, igc) :
        p \in Parents, k \in [Nodes -> NodeKinds],
        ig \in [Nodes -> BOOLEAN], igc \in [Nodes -> BOOLEAN]}

\* A stage with every other node its child, nothing hidden.
FlatScene ==
    SceneWith([n \in Nodes |-> IF n = Root THEN NullRef ELSE Root],
              [n \in Nodes |-> IF n = Root THEN NodeWith("", FALSE, -1, FALSE)
                               ELSE NodeWith("sprite", FALSE, -1, FALSE)],
              [n \in Nodes |-> FALSE], [n \in Nodes |-> FALSE])

SeqsUpTo(S, n) == UNION {[1..m -> S] : m \in 0..n}

\* Instructions with no nested set: a batch, one without renderPipeId, a
\* render group that has no instructionSet.
PlainInstructions == {Leaf("batch"), Leaf(""), Leaf("renderGroup")}
InnerSets == {SetOf(q) : q \in SeqsUpTo(PlainInstructions, MaxInstr)}
InstSets ==
    {SetOf(q) : q \in SeqsUpTo(PlainInstructions \cup {Group(is) : is \in InnerSets},
                               MaxInstr)}

\* A batch, then a render group of one batch.
NestedSet == SetOf(<<Leaf("batch"), Group(SetOf(<<Leaf("batch")>>))>>)

InitWith(w, s, is) ==
    /\ window = w
    /\ scene = s
    /\ instSet = is
    /\ exec = [k \in Pipes |-> [has |-> k \in ExecPipes, fn |-> Original]]
    /\ glDraw = Native
    /\ renders = 0
    /\ uid = FreshUids
    /\ pc = "idle"
    /\ cap = 0
    /\ stack = <<>>
    /\ originalExecuteFns = NoFns
    /\ pipeTimings = NoTimings
    /\ drawOrder = <<>>
    /\ totalDrawCalls = 0
    /\ nCalls = 0
    /\ nDraws = 0
    /\ pre = Snapshot
    /\ lastCall = "none"
    /\ lastArg = 0
    /\ lastResult = NoResult
    /\ reported = {}
    /\ client = NoClient
    /\ injected = FALSE
    /\ conns = 0
    /\ evaluated = [c \in {} |-> 0]
    /\ running = FALSE
    /\ pollPc = "none"
    /\ delivered = 0
    /\ lateCallbacks = 0
    /\ stoppedAt = "none"
    /\ pollOutcome = "none"
    /\ lastCallback = NoResult
    /\ now = 0
    /\ fpsCounter = FreshFps(0)

(***************************************************************************)
(* Spec: the namespace's methods on every page of Pages.                   *)
(***************************************************************************)
Init == \E w \in Pages : InitWith(w, FlatScene, NestedSet)

Next ==
    \/ GetInfo
    \/ GetSceneGraph
    \/ GetStats
    \/ GetRendering
    \/ GetTextures
    \/ GetInstructions
    \/ GetAll
    \/ \E d \in -1..MaxDuration : Benchmark(d)
    \/ Capture
    \/ \E k \in Pipes : PipeEnter(k)
    \/ DrawCall
    \/ PipeReturn
    \/ PipeThrow
    \/ BaselineReturn
    \/ ProfiledReturn

Spec == Init /\ [][Next]_vars

(***************************************************************************)
(* SpecScene: the two walkers on every display tree of Scenes.             *)
(***************************************************************************)
InitScene == \E s \in Scenes : InitWith(FullPage, s, NestedSet)

NextScene ==
    \/ GetSceneGraph
    \/ GetStats

SpecScene == InitScene /\ [][NextScene]_vars

(***************************************************************************)
(* SpecInstr: capture's instruction tree builder on every instruction set  *)
(* of InstSets.                                                            *)
(***************************************************************************)
InitInstr == \E is \in InstSets : InitWith(FullPage, FlatScene, is)

\* processInstructionSet(instructionSet), as capture() calls it
BuildInstructions ==
    /\ lastCall = "none"
    /\ LET b == ProcessInstructionSet(instSet, 0, <<>>)
       IN Returns("processInstructionSet",
                  Val([tree |-> b.result, instructions |-> b.instructions]), 0)
    /\ UNCHANGED << fpsVars, watchVars, clientVars, reported, pageVars, rendererVars, uid, captureVars >>

NextInstr == BuildInstructions

SpecInstr == InitInstr /\ [][NextInstr]_vars

(***************************************************************************)
(* SpecClassify: getPixiType on every node of ClassifierNodes, called      *)
(* again and again on the same, unchanged node.  lastArg is the node and   *)
(* lastResult the tags the calls returned, in order.                       *)
(***************************************************************************)
\* What a node can carry as renderPipeId: nothing, each id the checks name, a
\* pipe id no check names.
PipeIds ==
    {"", "BitmapText", "htmlText", "text", "mesh", "graphics",
     "nineSliceSprite", "tilingSprite", "sprite", "particle", "custom"}

ClassifierNodes ==
    [renderPipeId : PipeIds, gotoAndPlay : BOOLEAN, stop : BOOLEAN,
     play : BOOLEAN, children : BOOLEAN, parent : BOOLEAN,
     effects : {-1}, mask : {FALSE}]

Classify(c) ==
    /\ lastCall = "none"
    /\ ReturnsFor("getPixiType", c, Val(<<GetPixiType(c)>>), 0)
    /\ UNCHANGED << fpsVars, watchVars, clientVars, reported, pageVars, rendererVars, uid, captureVars >>

ClassifyAgain ==
    /\ lastCall = "getPixiType"
    /\ Len(lastResult.value) < MaxClassify
    /\ ReturnsFor("getPixiType", lastArg,
                  Val(Append(lastResult.value, GetPixiType(lastArg))), 0)
    /\ UNCHANGED << fpsVars, watchVars, clientVars, reported, pageVars, rendererVars, uid, captureVars >>

InitClassify == InitWith(FullPage, FlatScene, NestedSet)

NextClassify ==
    \/ \E c \in ClassifierNodes : Classify(c)
    \/ ClassifyAgain

SpecClassify == InitClassify /\ [][NextClassify]_vars

(***************************************************************************)
(* SpecClient: one PixiDebugger and the page it connects to.  Every        *)
(* connection is to the same page; the application goes on adding and      *)
(* removing display nodes.  Each call is awaited before the next is made.   *)
(* evaluated counts the evaluations of INJECT_SCRIPT sent on a connection, *)
(* answered or rejected; injected is set by the ones that were answered.   *)
(***************************************************************************)
\* if (!this.client || this.injected) return
AlreadyInjected(c, inj) == c = NoClient \/ inj

\* connect(options): this.client = await connect(options); await this.inject()
Connect ==
    /\ pc = "idle"
    /\ conns < MaxConnections
    /\ conns' = conns + 1
    /\ client' = conns + 1
    /\ IF AlreadyInjected(client', injected)
       THEN /\ evaluated' = evaluated @@ (client' :> 0)
            /\ UNCHANGED << injected, uid, fpsCounter >>
       ELSE /\ evaluated' = evaluated @@ (client' :> 1)
            /\ injected' = TRUE
            /\ uid' = FreshUids
            /\ fpsCounter' = FreshFps(now)
    /\ Returns("connect", Val(<<>>), 0)
    /\ UNCHANGED << now, watchVars, reported, pageVars, rendererVars, captureVars >>

\* connect(options) when the evaluation of INJECT_SCRIPT is rejected by the
\* transport: this.client is assigned already, inject() throws before
\* this.injected = true, and connect() throws.
ConnectInjectionFails ==
    /\ pc = "idle"
    /\ conns < MaxConnections
    /\ ~AlreadyInjected(conns + 1, injected)
    /\ conns' = conns + 1
    /\ client' = conns + 1
    /\ evaluated' = evaluated @@ (client' :> 1)
    /\ Returns("connect", Threw, 0)
    /\ UNCHANGED << injected, uid, fpsVars, watchVars, reported, pageVars,
                    rendererVars, captureVars >>

\* disconnect(): if (this.client) { close; client = null; injected = false }
Disconnect ==
    /\ pc = "idle"
    /\ IF client # NoClient
       THEN client' = NoClient /\ injected' = FALSE
       ELSE UNCHANGED << client, injected >>
    /\ Returns("disconnect", Val(<<>>), 0)
    /\ UNCHANGED << fpsVars, watchVars, conns, evaluated, reported, pageVars,
                    rendererVars, uid, captureVars >>

\* throw new Error('Not connected. Call connect() first.')
NotConnected == Raised("Not connected. Call connect() first.")

\* PixiDebugger.getSceneGraph(): ensureConnected throws without a client
DebuggerGetSceneGraph ==
    IF client = NoClient
    THEN /\ pc = "idle"
         /\ Returns("getSceneGraph", NotConnected, 0)
         /\ UNCHANGED << fpsVars, watchVars, clientVars, reported, pageVars, rendererVars, uid, captureVars >>
    ELSE GetSceneGraph

\* The application takes a childless node out of the display tree.
RemoveChild(n) ==
    /\ n # Root
    /\ scene.parent[n] # NullRef
    /\ scene.children[n] = <<>>
    /\ scene' = SceneWith([scene.parent EXCEPT ![n] = NullRef], scene.props,
                          scene.ignore, scene.ignoreChildren)
    /\ UNCHANGED << fpsVars, watchVars, clientVars, reported, window, instSet, rendererVars, uid,
                    captureVars, renders, pre, lastCall, lastArg, lastResult >>

\* The application puts a node that is out of the tree under a node p of it.
AddChild(n, p) ==
    /\ n # Root
    /\ scene.parent[n] = NullRef
    /\ p # n
    /\ p = Root \/ scene.parent[p] # NullRef
    /\ scene' = SceneWith([scene.parent EXCEPT ![n] = p], scene.props,
                          scene.ignore, scene.ignoreChildren)
    /\ UNCHANGED << fpsVars, watchVars, clientVars, reported, window, instSet, rendererVars, uid,
                    captureVars, renders, pre, lastCall, lastArg, lastResult >>

InitClient == InitWith(FullPage, FlatScene, NestedSet)

NextClient ==
    \/ Connect
    \/ ConnectInjectionFails
    \/ Disconnect
    \/ DebuggerGetSceneGraph
    \/ \E n \in Nodes : RemoveChild(n)
    \/ \E n, p \in Nodes : AddChild(n, p)

SpecClient == InitClient /\ [][NextClient]_vars

(***************************************************************************)
(* SpecWatch: watchStats beside connect and disconnect.  The polling loop  *)
(* is at "stats" while it awaits getStats(), at "fps" while it awaits      *)
(* getFps(), at "delay" while it awaits the timer, and "done" when poll()  *)
(* has returned or thrown (the rejection is swallowed by the catch).        *)
(* The event loop runs every continuation that is ready: weak fairness of  *)
(* the loop's steps.                                                       *)
(***************************************************************************)
\* (mutant) the loop does not read the flag
LoopContinuesRegardless(r) == TRUE

\* while (running)
LoopContinues(r) == r

\* The loop calls this.getStats(): ensureConnected throws without a client,
\* else the evaluation is sent.
CallGetStats == IF client = NoClient THEN "done" ELSE "stats"

\* watchStats(intervalMs, callback): running = true; poll() runs up to its
\* first await; the stop handle is returned.
WatchStats ==
    /\ pollPc = "none"
    /\ running' = TRUE
    /\ pollPc' = CallGetStats
    /\ pollOutcome' = IF pollPc' = "done" THEN "rejected" ELSE "running"
    /\ UNCHANGED << fpsVars, delivered, lateCallbacks, stoppedAt, lastCallback, clientVars, reported,
                    pageVars, rendererVars, uid, captureVars, renders, pre,
                    lastCall, lastArg, lastResult >>

\* getStats() resolves; the loop calls evaluate(this.client!, getFps), which
\* throws when the client is null.
StatsArrive ==
    /\ pollPc = "stats"
    /\ pc = "idle"
    /\ Returns("getStats", StatsResult(window, scene), 0)
    /\ pollPc' = IF client = NoClient THEN "done" ELSE "fps"
    /\ pollOutcome' = IF client = NoClient THEN "rejected" ELSE pollOutcome
    /\ UNCHANGED << fpsVars, running, delivered, lateCallbacks, stoppedAt, lastCallback, clientVars,
                    reported, pageVars, rendererVars, uid, captureVars >>

\* getFps resolves: callback({ ...stats, fps }) with the stats getStats()
\* resolved to (the page is the same as it was then), then the timer is set.
FpsArrive ==
    /\ pollPc = "fps"
    /\ running => delivered < MaxPolls
    /\ delivered' = IF running THEN delivered + 1 ELSE delivered
    /\ lateCallbacks' = IF running THEN lateCallbacks ELSE lateCallbacks + 1
    /\ pollPc' = "delay"
    /\ lastCallback' = StatsResult(window, scene)
    /\ fpsCounter' = MeasureFps(fpsCounter, now).state
    /\ UNCHANGED << now, running, stoppedAt, pollOutcome, clientVars, reported, pageVars,
                    rendererVars, uid, captureVars, renders, pre, lastCall,
                    lastArg, lastResult >>

\* The timer fires: the loop tests the flag and polls again or ends.
DelayEnds ==
    /\ pollPc = "delay"
    /\ pollPc' = IF LoopContinues(running) THEN CallGetStats ELSE "done"
    /\ pollOutcome' = IF ~LoopContinues(running) THEN "returned"
                      ELSE IF pollPc' = "done" THEN "rejected" ELSE pollOutcome
    /\ UNCHANGED << fpsVars, running, delivered, lateCallbacks, stoppedAt, lastCallback, clientVars,
                    reported, pageVars, rendererVars, uid, captureVars, renders,
                    pre, lastCall, lastArg, lastResult >>

\* An evaluation in flight on a connection that was closed is rejected:
\* poll() throws and .catch(() => {}) swallows it.
EvaluateFails ==
    /\ pollPc \in {"stats", "fps"}
    /\ client = NoClient
    /\ pollPc' = "done"
    /\ pollOutcome' = "rejected"
    /\ UNCHANGED << fpsVars, running, delivered, lateCallbacks, stoppedAt, lastCallback, clientVars,
                    reported, pageVars, rendererVars, uid, captureVars, renders,
                    pre, lastCall, lastArg, lastResult >>

\* The stop handle: () => { running = false }
Stop ==
    /\ pollPc # "none"
    /\ running' = FALSE
    /\ stoppedAt' = IF running THEN pollPc ELSE stoppedAt
    /\ UNCHANGED << fpsVars, pollPc, delivered, lateCallbacks, pollOutcome, lastCallback, clientVars, reported,
                    pageVars, rendererVars, uid, captureVars, renders, pre,
                    lastCall, lastArg, lastResult >>

PollStep == StatsArrive \/ FpsArrive \/ DelayEnds \/ EvaluateFails

InitWatch == InitWith(FullPage, FlatScene, NestedSet)

NextWatch ==
    \/ Connect
    \/ Disconnect
    \/ WatchStats
    \/ StatsArrive
    \/ FpsArrive
    \/ DelayEnds
    \/ EvaluateFails
    \/ Stop

SpecWatch == InitWatch /\ [][NextWatch]_vars /\ WF_vars(PollStep)

(***************************************************************************)
(* SpecCli: the scene command on every display tree of Scenes.  A command  *)
(* makes its own PixiDebugger, connects (the script is injected), asks for *)
(* the scene graph, prints it and disconnects.                             *)
(***************************************************************************)
\* flattenSceneGraph(node, path, result): the node, then its children's lists
RECURSIVE FlattenSceneGraph(_)
RECURSIVE FlattenAll(_)
FlattenSceneGraph(node) ==
    <<[id |-> node.id, type |-> node.type, depth |-> node.depth]>>
       \o FlattenAll(node.children)

FlattenAll(q) ==
    IF q = <<>> THEN <<>> ELSE FlattenSceneGraph(Head(q)) \o FlattenAll(Tail(q))

\* What the command prints for the scene graph it got: the tree, or with
\* --flat the flattened list (flattenSceneGraph(null) throws on node.name).
ScenePrinted(r, flat) ==
    IF r.kind # "value"
    THEN IF flat /\ r.kind = "null" THEN Threw ELSE r
    ELSE IF flat THEN Val([flat |-> TRUE, tree |-> NullNode,
                           list |-> FlattenSceneGraph(r.value)])
         ELSE Val([flat |-> FALSE, tree |-> r.value, list |-> <<>>])

\* pixi-debug scene --depth d [--flat]
SceneCommand(d, flat) ==
    /\ pc = "idle"
    /\ LET r == SceneGraphResult(window, scene, FreshUids)
       IN /\ ReturnsFor("scene", [depth |-> d, flat |-> flat],
                        ScenePrinted(r.result, flat), 0)
          /\ uid' = r.uid
          /\ reported' = reported \cup Shows(r.result, r.uid)
          /\ fpsCounter' = FreshFps(now)
    /\ UNCHANGED << now, watchVars, clientVars, pageVars, rendererVars, captureVars >>

InitCli == InitScene

NextCli == \E d \in 0..MaxDepth, flat \in BOOLEAN : SceneCommand(d, flat)

SpecCli == InitCli /\ [][NextCli]_vars

(***************************************************************************)
(* SpecEval: the transport's evaluate on every answer of Responses.  An    *)
(* answer of Runtime.evaluate is { result: { type, value? },               *)
(* exceptionDetails? }; value is <<>> when the answer has none and <<v>>    *)
(* when it carries the JSON value v.                                       *)
(***************************************************************************)
\* The types a RemoteObject can have.
RemoteTypes ==
    {"object", "function", "undefined", "string", "number", "boolean",
     "symbol", "bigint"}

Responses ==
    [type : RemoteTypes, value : {<<>>} \cup {<<v>> : v \in 0..MaxValue},
     exceptionDetails : BOOLEAN]

\* evaluate(client, expression), given the answer of client.Runtime.evaluate
Evaluate(response) ==
    IF response.type = "undefined"
    THEN Raised("Expression returned undefined - PixiJS may not be loaded")
    ELSE Val(response.value)

\* client.Runtime.evaluate({ expression, returnByValue, awaitPromise }) is
\* answered.
RuntimeEvaluate(response) ==
    /\ lastCall = "none"
    /\ ReturnsFor("Runtime.evaluate", response, NoResult, 0)
    /\ UNCHANGED << fpsVars, watchVars, clientVars, reported, pageVars, rendererVars, uid,
                    captureVars >>

\* evaluate goes on with the answer.
EvaluateReturns ==
    /\ lastCall = "Runtime.evaluate"
    /\ ReturnsFor("evaluate", lastArg, Evaluate(lastArg), 0)
    /\ UNCHANGED << fpsVars, watchVars, clientVars, reported, pageVars, rendererVars, uid,
                    captureVars >>

InitEval == InitWith(FullPage, FlatScene, NestedSet)

NextEval ==
    \/ \E response \in Responses : RuntimeEvaluate(response)
    \/ EvaluateReturns

SpecEval == InitEval /\ [][NextEval]_vars

(***************************************************************************)
(* SpecFps: getFps() as the page's clock advances.                         *)
(***************************************************************************)
\* getFps: function() { return measureFps(); }
GetFps ==
    /\ pc = "idle"
    /\ fpsCounter.frameCount < MaxFrames
    /\ LET m == MeasureFps(fpsCounter, now)
       IN /\ Returns("getFps", Val(m.fps), 0)
          /\ fpsCounter' = m.state
    /\ UNCHANGED << now, watchVars, clientVars, reported, pageVars, rendererVars,
                    uid, captureVars >>

\* Half a second passes on the page.
Tick ==
    /\ now < MaxTime
    /\ now' = now + 1
    /\ UNCHANGED << fpsCounter, watchVars, clientVars, reported, pageVars,
                    rendererVars, uid, captureVars, renders, pre, lastCall,
                    lastArg, lastResult >>

InitFps == InitWith(FullPage, FlatScene, NestedSet)

NextFps ==
    \/ GetFps
    \/ Tick

SpecFps == InitFps /\ [][NextFps]_vars

(***************************************************************************)
(* SpecLocate: findPixi on every page of LocatorPages: each registration   *)
(* point absent, present and empty, or present with some of its fields.    *)
(***************************************************************************)
Apps == {NoApp} \cup {AppWith(s, r) : s \in BOOLEAN, r \in BOOLEAN}

LocatorPages ==
    {PageWith(d, a, s, r, v, TRUE, TRUE) :
        d \in {NoSource} \cup {SourceWith(da, ds, dr, dv) :
                                  da \in Apps, ds \in BOOLEAN, dr \in BOOLEAN,
                                  dv \in {"", "8.0.0"}},
        a \in Apps, s \in BOOLEAN, r \in BOOLEAN, v \in {"", "7.4.0"}}

\* const pixi = findPixi(), as every method begins
Locate ==
    /\ pc = "idle"
    /\ LET pixi == FindPixi(window)
       IN Returns("findPixi", IF pixi.found THEN Val(pixi) ELSE Null, 0)
    /\ UNCHANGED << fpsVars, watchVars, clientVars, reported, pageVars,
                    rendererVars, uid, captureVars >>

InitLocate == \E w \in LocatorPages : InitWith(w, FlatScene, NestedSet)

NextLocate == Locate

SpecLocate == InitLocate /\ [][NextLocate]_vars

(***************************************************************************)
(* The claims.                                                             *)
(***************************************************************************)
CaptureReturned == pc = "idle" /\ lastCall = "capture" /\ lastResult.kind = "value"
CaptureThrew == pc = "idle" /\ lastCall = "capture" /\ lastResult.kind = "throw"

\* C1: when capture() has returned a result, every pipe's execute entry point
\* and the draw primitives are the functions they were when capture() was
\* called; as this holds of every capture, it holds of any number of them in
\* a row.
C1_RestoredAfterCapture ==
    CaptureReturned => exec = pre.exec /\ glDraw = pre.glDraw

\* A second capture in a row that returned on a gl page, after pipes ran
\* nested and issued a draw call, with the renderer as it was at the start.
C1_Witness ==
    /\ CaptureReturned
    /\ cap = 2
    /\ \A k \in ExecPipes : exec[k].fn = Original
    /\ glDraw = Native
    /\ lastResult.value.drawCalls > 0
    /\ DOMAIN lastResult.value.pipeTimings = ExecPipes

\* C2: when a pipe's original execute throws during the instrumented render,
\* every pipe's execute entry point is again the function it was before
\* capture() was called.
C2_RestoredAfterThrow ==
    CaptureThrew => exec = pre.exec

\* C3: on a page with a renderer and a stage whose stage has no
\* renderGroup.instructionSet, capture() returns the render-groups error,
\* calls renderer.render not once and replaces no execute entry point and no
\* draw primitive.
C3_NoInstructionSetNoEffect ==
    (/\ lastCall = "capture"
     /\ FindPixi(window).renderer
     /\ FindPixi(window).stage
     /\ ~window.instructionSet)
    => /\ pc = "idle"
       /\ lastResult.kind = "error"
       /\ lastResult.error = "Capture requires PixiJS v8 with render groups"
       /\ renders = 0
       /\ exec = pre.exec
       /\ glDraw = pre.glDraw
       /\ \A k \in ExecPipes : exec[k].fn = Original

\* capture() was called on such a page, one with a gl context.
C3_Witness ==
    /\ lastCall = "capture"
    /\ FindPixi(window).renderer
    /\ FindPixi(window).stage
    /\ ~window.instructionSet
    /\ window.gl
    /\ lastResult.kind = "error"

\* The pipes the draw-order log names: every invocation of a wrapped execute
\* that returned appended one entry.
LoggedPipes(log) == {log[i].pipe : i \in DOMAIN log}
LoggedCalls(log, k) == Cardinality({i \in DOMAIN log : log[i].pipe = k})

\* C4: in a result of capture(), pipeTimings has no entry with calls = 0: its
\* keys are exactly the pipes whose wrapped execute ran during the
\* instrumented render, each with the number of its invocations.
C4_NoZeroCallTimings ==
    CaptureReturned =>
        LET r == lastResult.value
        IN /\ \A k \in DOMAIN r.pipeTimings : r.pipeTimings[k].calls > 0
           /\ DOMAIN r.pipeTimings = LoggedPipes(r.drawOrder)
           /\ \A k \in DOMAIN r.pipeTimings :
                 r.pipeTimings[k].calls = LoggedCalls(r.drawOrder, k)

\* A result in which one pipe with an execute ran and another did not.
C4_Witness ==
    /\ CaptureReturned
    /\ DOMAIN lastResult.value.pipeTimings # {}
    /\ \E k \in ExecPipes : k \notin DOMAIN lastResult.value.pipeTimings

\* C5: the instruction indices are one counter over the whole build, nested
\* instruction sets included: pairwise distinct, and instructions[i].index = i
\* in the flat list (whose first element is element 1 here).
C5_GlobalIndexOrder ==
    lastCall = "processInstructionSet" =>
        LET flat == lastResult.value.instructions
        IN /\ \A i \in DOMAIN flat : flat[i].index = i - 1
           /\ \A i, j \in DOMAIN flat : i # j => flat[i].index # flat[j].index

(***************************************************************************)
(* The display tree as the claims speak of it.                             *)
(***************************************************************************)
\* The nodes above n, its parent first.
RECURSIVE Ancestors(_, _)
Ancestors(s, n) ==
    IF n = NullRef \/ s.parent[n] = NullRef THEN {}
    ELSE {s.parent[n]} \cup Ancestors(s, s.parent[n])

\* The nodes of the tree under the stage.
TreeNodes(s) == {n \in Nodes : n = Root \/ Root \in Ancestors(s, n)}

\* The nodes of the tree neither hidden themselves nor below a node that is
\* hidden or hides its children.
Shown(s) ==
    {n \in TreeNodes(s) :
        /\ ~s.ignore[n]
        /\ \A a \in Ancestors(s, n) : ~s.ignore[a] /\ ~s.ignoreChildren[a]}

NothingHidden(s) == \A n \in TreeNodes(s) : ~s.ignore[n]

\* The nodes of a snapshot: how many, and which.
RECURSIVE NodeCount(_)
RECURSIVE NodeCountAll(_)
NodeCount(nd) == 1 + NodeCountAll(nd.children)
NodeCountAll(q) == IF q = <<>> THEN 0 ELSE NodeCount(Head(q)) + NodeCountAll(Tail(q))

StatsTotal(r) == IF "total" \in DOMAIN r.value THEN r.value["total"] ELSE 0

\* The per-type counts of a stats object against a set of display nodes.
TypeCountsAre(stats, S, s) ==
    \A n \in Nodes :
        LET key == ToLowerCase(GetPixiType(s.props[n]))
            same == {m \in S : ToLowerCase(GetPixiType(s.props[m])) = key}
        IN IF same = {} THEN key \notin DOMAIN stats
           ELSE key \in DOMAIN stats /\ stats[key] = Cardinality(same)

\* C6: on a display tree in which no node carries __devtoolIgnore, the
\* snapshot of getSceneGraph() has as many nodes as getStats() reports in
\* total, whatever nodes carry __devtoolIgnoreChildren.
C6_NodeCountEqualsTotal ==
    NothingHidden(scene) =>
        /\ lastCall = "getSceneGraph" =>
              NodeCount(lastResult.value) = StatsTotal(StatsResult(window, scene))
        /\ lastCall = "getStats" =>
              StatsTotal(lastResult) =
                 NodeCount(SceneGraphResult(window, scene, uid).result.value)

\* getStats() on a three-node tree, none hidden, one hiding its child.
C6_Witness ==
    /\ lastCall = "getStats"
    /\ NothingHidden(scene)
    /\ Cardinality(TreeNodes(scene)) = 3
    /\ \E n \in TreeNodes(scene) : scene.ignoreChildren[n] /\ scene.children[n] # <<>>
    /\ StatsTotal(lastResult) = 2

\* C7: a node that carries __devtoolIgnore is left out of both outputs with
\* its subtree, and nothing else is: the snapshot holds exactly the nodes
\* shown, and the stats count exactly them, in total and by type.  (Stated
\* for the nodes under the stage: the stage itself is not hidden.)
C7_HiddenLeftOutOfBoth ==
    ~scene.ignore[Root] =>
        /\ lastCall = "getSceneGraph" => SnapshotOf(lastResult, uid) = Shown(scene)
        /\ lastCall = "getStats" =>
              /\ StatsTotal(lastResult) = Cardinality(Shown(scene))
              /\ TypeCountsAre(lastResult.value, Shown(scene), scene)

\* C7, the snapshot's half alone (the half the code keeps).
C7_HiddenLeftOutOfSnapshot ==
    lastCall = "getSceneGraph" => SnapshotOf(lastResult, uid) = Shown(scene)

\* C8: a node that carries __devtoolIgnoreChildren and is itself shown stays
\* in the snapshot with an empty children list and stays counted in the
\* stats; its descendants are in neither.
C8_ChildrenHiddenNodeKept ==
    /\ lastCall = "getSceneGraph" =>
          /\ SnapshotOf(lastResult, uid) = Shown(scene)
          /\ \A n \in Shown(scene) :
                scene.ignoreChildren[n] =>
                   \A nd \in Subnodes(lastResult.value) :
                      nd.id = uid.map[n] => nd.children = <<>>
    /\ (lastCall = "getStats" /\ NothingHidden(scene)) =>
          /\ StatsTotal(lastResult) = Cardinality(Shown(scene))
          /\ TypeCountsAre(lastResult.value, Shown(scene), scene)

\* A node under the stage hides its own child: the snapshot holds the stage
\* and that node, and not the child.
C8_Witness ==
    /\ lastCall = "getSceneGraph"
    /\ NothingHidden(scene)
    /\ \E n \in Shown(scene) \ {Root} :
          /\ scene.ignoreChildren[n]
          /\ scene.children[n] # <<>>
          /\ n \in SnapshotOf(lastResult, uid)
    /\ Cardinality(SnapshotOf(lastResult, uid)) = 2

Methods ==
    {"getInfo", "getSceneGraph", "getStats", "getRendering", "getTextures",
     "getInstructions", "getAll", "capture", "benchmark"}

\* C9: every method of the namespace returns a value (an object, or an
\* {error} payload) and never raises, on every page and for every argument,
\* benchmark(durationMs) with durationMs <= 0 included.
C9_MethodsNeverRaise ==
    (pc = "idle" /\ lastCall \in Methods) => lastResult.kind \in {"value", "error", "null"}

IsError(r, msg) == r.kind = "error" /\ r.error = msg

\* C10: a method whose root object findPixi does not resolve returns its
\* {error} payload and renders nothing: 'No renderer found' from getRendering
\* and getTextures, 'No stage found' from getSceneGraph and getStats, 'No
\* renderer or stage found' from getInstructions, capture and benchmark when
\* either is missing, 'PixiJS not found' from getInfo when findPixi finds
\* nothing.
C10_MissingRootIsErrorPayload ==
    LET pixi == FindPixi(window)
    IN /\ (lastCall \in {"getRendering", "getTextures"} /\ ~pixi.renderer)
             => IsError(lastResult, "No renderer found")
       /\ (lastCall \in {"getSceneGraph", "getStats"} /\ ~pixi.stage)
             => IsError(lastResult, "No stage found")
       /\ (lastCall \in {"getInstructions", "capture", "benchmark"}
              /\ (~pixi.renderer \/ ~pixi.stage))
             => IsError(lastResult, "No renderer or stage found")
       /\ (lastCall = "getInfo" /\ ~pixi.found)
             => IsError(lastResult, "PixiJS not found")
       /\ (lastCall \in Methods /\ (~pixi.renderer \/ ~pixi.stage))
             => /\ renders = 0
                /\ pc = "idle"
                /\ exec = pre.exec
                /\ glDraw = pre.glDraw

\* getInstructions() on a page whose renderer is registered and whose stage
\* is not.
C10_Witness ==
    /\ lastCall = "getInstructions"
    /\ FindPixi(window).renderer
    /\ ~FindPixi(window).stage
    /\ lastResult.kind = "error"

(***************************************************************************)
(* C11: benchmark's statistics.                                            *)
(***************************************************************************)
BenchmarkReturned == lastCall = "benchmark" /\ lastResult.kind = "value"

\* C11: a benchmark that rendered at least one frame reports as frameCount
\* the number of frame times it recorded (one per render), and its frame
\* times are ordered min <= p50 <= p95 <= p99 <= max and min <= avg <= max.
C11_BenchmarkStatsOrdered ==
    BenchmarkReturned =>
       LET v == lastResult.value
           t == v.frameTime
       IN /\ v.frameCount = Len(v.frames)
          /\ v.frameCount = renders
          /\ v.frameCount >= 1
          /\ t.min <= t.p50 /\ t.p50 <= t.p95 /\ t.p95 <= t.p99 /\ t.p99 <= t.max
          /\ t.min <= t.avg /\ t.avg <= t.max

\* A benchmark of more than one frame whose frames took different times, the
\* slower one first.
C11_Witness ==
    /\ BenchmarkReturned
    /\ lastResult.value.frameCount >= 2
    /\ lastResult.value.frames[1] > lastResult.value.frames[2]
    /\ lastResult.value.frameTime.min < lastResult.value.frameTime.avg
    /\ lastResult.value.frameTime.avg < lastResult.value.frameTime.max

(***************************************************************************)
(* C12: the classifier.                                                    *)
(***************************************************************************)
\* The tag a renderPipeId stands for, "" when no check names it.
TagOfPipeId(rp) ==
    CASE rp = "BitmapText" -> "BitmapText"
      [] rp = "htmlText" -> "HTMLText"
      [] rp = "text" -> "Text"
      [] rp = "mesh" -> "Mesh"
      [] rp = "graphics" -> "Graphics"
      [] rp = "nineSliceSprite" -> "NineSliceSprite"
      [] rp = "tilingSprite" -> "TilingSprite"
      [] rp = "sprite" -> "Sprite"
      [] rp = "particle" -> "ParticleContainer"
      [] OTHER -> ""

HasAnimatedMethods(c) == c.gotoAndPlay /\ c.stop /\ c.play
IsSpecific(c) == TagOfPipeId(c.renderPipeId) # "" \/ HasAnimatedMethods(c)
IsGenericContainer(c) == c.children /\ c.parent

\* C12: the tag is that of the first check, in the fixed order, the node
\* passes; a node that passes a specific check and the generic container
\* check gets a specific tag it qualifies for, never Container; a node with
\* the three AnimatedSprite methods and renderPipeId 'sprite' gets
\* AnimatedSprite; and every classification of the same node gives the
\* same tag.
C12_FirstMatchWins ==
    lastCall = "getPixiType" =>
       LET c == lastArg
           tags == lastResult.value
           tag == tags[1]
       IN /\ \A i \in DOMAIN tags : tags[i] = tag
          /\ \A i \in 1..Len(Checks) :
                (Check(i, c) /\ \A j \in 1..(i - 1) : ~Check(j, c))
                   => tag = Checks[i][1]
          /\ (IsSpecific(c) /\ IsGenericContainer(c)) =>
                /\ tag # "Container"
                /\ \/ tag = TagOfPipeId(c.renderPipeId)
                   \/ tag = "AnimatedSprite" /\ HasAnimatedMethods(c)
          /\ (HasAnimatedMethods(c) /\ c.renderPipeId = "sprite") =>
                tag = "AnimatedSprite"

\* An animated sprite that is also a sprite and a container, classified twice.
C12_Witness ==
    /\ lastCall = "getPixiType"
    /\ HasAnimatedMethods(lastArg)
    /\ lastArg.renderPipeId = "sprite"
    /\ IsGenericContainer(lastArg)
    /\ lastResult.value = <<"AnimatedSprite", "AnimatedSprite">>

(***************************************************************************)
(* C13, C14: injection.                                                    *)
(***************************************************************************)
\* C13: the connection the PixiDebugger holds has had the injected script
\* evaluated on it exactly once.
C13_InjectedOncePerConnection ==
    client # NoClient => evaluated[client] = 1

\* C14: over all the scene snapshots taken, a display node is always shown
\* with one id, and no id is shown for two nodes.
C14_StableDistinctIds ==
    \A a, b \in reported :
       /\ a[1] = b[1] => a[2] = b[2]
       /\ a[2] = b[2] => a[1] = b[1]

(***************************************************************************)
(* C15: stopping watchStats.                                               *)
(***************************************************************************)
StopCalled == pollPc # "none" /\ ~running

\* C15: once the stop handle has been called the loop delivers at most one
\* more callback, none if it was in its delay when stop was called, and it
\* ends.
C15_AtMostOneCallbackAfterStop ==
    /\ [](lateCallbacks <= 1)
    /\ [](stoppedAt = "delay" => lateCallbacks = 0)
    /\ (StopCalled ~> pollPc = "done")

\* Stop was called while getStats() was awaited, and the cycle in flight
\* delivered its callback before the loop ended.
C15_Witness ==
    /\ StopCalled
    /\ stoppedAt = "stats"
    /\ lateCallbacks = 1
    /\ delivered >= 1
    /\ pollPc = "done"

(***************************************************************************)
(* C16: getAll.                                                            *)
(***************************************************************************)
Sections == {"info", "sceneGraph", "stats", "rendering", "textures", "instructions"}

\* C16: getAll() never returns a success object (one without a top-level
\* error) in which some sections are populated and others are {error}.
C16_NoPartialSuccess ==
    (lastCall = "getAll" /\ lastResult.kind = "value") =>
       ~ /\ \E k \in Sections : lastResult.value[k].kind = "error"
         /\ \E k \in Sections : lastResult.value[k].kind = "value"

(***************************************************************************)
(* C17: the scene command's --depth.                                       *)
(***************************************************************************)
\* The depths of the nodes the scene command printed.
PrintedDepths(v) ==
    IF v.flat THEN {v.list[i].depth : i \in DOMAIN v.list}
    ELSE {nd.depth : nd \in Subnodes(v.tree)}

\* C17: with --depth d the scene command prints no node deeper than d.
C17_DepthBoundsOutput ==
    (lastCall = "scene" /\ lastResult.kind = "value") =>
       \A k \in PrintedDepths(lastResult.value) : k <= lastArg.depth

(***************************************************************************)
(* C18, C19, C20: the wrapped entry points.                                *)
(***************************************************************************)
\* C18: when a pipe's original execute has thrown out of capture(), the draw
\* primitives are the functions they were before the wrappers replaced them.
C18_DrawRestoredAfterThrow ==
    CaptureThrew => glDraw = pre.glDraw

\* Capture c's wrapper is on pipe k's entry point.
WrappedBy(e, k, c) == \E i \in DOMAIN e[k].fn : e[k].fn[i] = c

C20_DrawCallsCountedOnce ==
    pc = "profiled" => totalDrawCalls = nDraws

(***************************************************************************)
(* C21: failures in the watchStats loop.                                   *)
(***************************************************************************)
\* C21: when poll() has ended by a failure, the failure has reached the
\* caller: the callback was handed an {error} payload for it.  (watchStats
\* itself has returned the stop handle by then and cannot fail any more.)
C21_WatchFailureReported ==
    pollOutcome = "rejected" => lastCallback.kind = "error"

(***************************************************************************)
(* C22: the transport's evaluate.                                          *)
(***************************************************************************)
\* C22: evaluate raises when the answer carries exception details (the
\* expression threw in the page), raises the 'Expression returned undefined'
\* error when the answer's type is undefined, and returns as success only
\* the value of an answer that is neither.
C22_EvaluateReportsFailure ==
    lastCall = "evaluate" =>
       /\ lastArg.exceptionDetails => lastResult.kind = "throw"
       /\ lastArg.type = "undefined" =>
             lastResult =
                Raised("Expression returned undefined - PixiJS may not be loaded")
       /\ lastResult.kind = "value" =>
             /\ ~lastArg.exceptionDetails /\ lastArg.type # "undefined"
             /\ lastResult.value = lastArg.value

(***************************************************************************)
(* C23: the frame-rate counter.                                            *)
(***************************************************************************)
\* C23: a call of getFps() leaves the frame-rate counter (window start,
\* frame count, last fps value) as it was.
C23_GetFpsOnlyReads ==
    [][GetFps => fpsCounter' = fpsCounter]_vars

(***************************************************************************)
(* C24: the object locator.                                                *)
(***************************************************************************)
DevtoolsExposes ==
    /\ window.devtools.present
    /\ window.devtools.app.present \/ window.devtools.stage \/ window.devtools.renderer
AppExposes == window.pixiApp.present /\ (window.pixiApp.stage \/ window.pixiApp.renderer)
GlobalsExpose == window.pixiStage \/ window.pixiRenderer

\* What the handle holds when __PIXI_DEVTOOLS__ is the candidate taken.
HandleOfDevtools ==
    [found |-> TRUE,
     app |-> window.devtools.app.present \/ window.pixiApp.present,
     stage |-> window.devtools.stage \/ window.devtools.app.stage \/ window.pixiStage,
     renderer |-> window.devtools.renderer \/ window.devtools.app.renderer
                     \/ window.pixiRenderer,
     version |-> IF window.devtools.version # "" THEN window.devtools.version
                 ELSE window.pixiVersion]

\* What it holds when __PIXI_APP__ is.
HandleOfApp ==
    [found |-> TRUE, app |-> TRUE,
     stage |-> window.pixiApp.stage \/ window.pixiStage,
     renderer |-> window.pixiApp.renderer \/ window.pixiRenderer,
     version |-> window.pixiVersion]

\* What it holds when the pair (__PIXI_STAGE__, __PIXI_RENDERER__) is.
HandleOfGlobals ==
    [found |-> TRUE, app |-> window.pixiApp.present,
     stage |-> window.pixiStage, renderer |-> window.pixiRenderer,
     version |-> window.pixiVersion]

\* C24: findPixi never throws; it returns null exactly when none of
\* __PIXI_DEVTOOLS__, __PIXI_APP__ and the pair (__PIXI_STAGE__,
\* __PIXI_RENDERER__) exposes an app, a stage or a renderer; otherwise it
\* returns the handle of the first of the three, in that order, that does.
C24_FirstExposingCandidateWins ==
    lastCall = "findPixi" =>
       /\ lastResult.kind \in {"value", "null"}
       /\ lastResult.kind = "null" <=>
             ~(DevtoolsExposes \/ AppExposes \/ GlobalsExpose)
       /\ DevtoolsExposes => lastResult = Val(HandleOfDevtools)
       /\ (~DevtoolsExposes /\ AppExposes) => lastResult = Val(HandleOfApp)
       /\ (~DevtoolsExposes /\ ~AppExposes /\ GlobalsExpose) =>
             lastResult = Val(HandleOfGlobals)

\* __PIXI_DEVTOOLS__ holds only a version-tagged stage beside a whole
\* __PIXI_APP__ and both globals: the handle is the devtools candidate's.
C24_Witness ==
    /\ lastCall = "findPixi"
    /\ DevtoolsExposes /\ AppExposes /\ GlobalsExpose
    /\ ~window.devtools.app.present /\ ~window.devtools.renderer
    /\ window.devtools.version = "8.0.0" /\ window.pixiVersion = "7.4.0"
    /\ lastResult.kind = "value"
    /\ lastResult.value.version = "8.0.0"

(***************************************************************************)
(* C25: the draw-call counters of a capture result.                        *)
(***************************************************************************)
\* The sum of f[k][field] over the keys of the record or sequence f.
RECURSIVE SumField(_, _, _)
SumField(f, keys, field) ==
    IF keys = {} THEN 0
    ELSE LET k == CHOOSE x \in keys : TRUE
         IN f[k][field] + SumField(f, keys \ {k}, field)

\* C25: in a result capture() returns, drawCalls is the sum of the
\* pipeTimings entries' drawCalls and the sum of the drawOrder entries'
\* drawCalls, and drawOrder has as many entries as the pipeTimings entries
\* have calls; without a gl context every draw-call count is 0.
C25_DrawCountersAgree ==
    CaptureReturned =>
       LET v == lastResult.value
           pt == v.pipeTimings
           log == v.drawOrder
       IN /\ v.drawCalls = SumField(pt, DOMAIN pt, "drawCalls")
          /\ v.drawCalls = SumField(log, DOMAIN log, "drawCalls")
          /\ Len(log) = SumField(pt, DOMAIN pt, "calls")
          /\ ~window.gl =>
                /\ v.drawCalls = 0
                /\ \A k \in DOMAIN pt : pt[k].drawCalls = 0
                /\ \A i \in DOMAIN log : log[i].drawCalls = 0

\* A capture on a gl page returned after one pipe ran inside another and the
\* inner one issued a draw call: both pipes are charged with it.
C25_Witness ==
    /\ CaptureReturned
    /\ window.gl
    /\ lastResult.value.drawCalls = 2
    /\ Len(lastResult.value.drawOrder) = 2
    /\ \A i \in 1..2 : lastResult.value.drawOrder[i].drawCalls = 1

(***************************************************************************)
(* C26: connected means injected.                                          *)
(***************************************************************************)
\* C26: the connection a PixiDebugger holds has had the injected script
\* evaluated on it with success; when connect() has thrown, no connection
\* is held; and a data method called with no connection held fails with
\* 'Not connected. Call connect() first.'.
C26_ClientImpliesInjected ==
    /\ client # NoClient => injected /\ evaluated[client] >= 1
    /\ (lastCall = "connect" /\ lastResult.kind = "throw") => client = NoClient
    /\ (lastCall = "getSceneGraph" /\ client = NoClient) => lastResult = NotConnected

====
